---- MODULE Spec2Model ----
(***************************************************************************)
(* Voting integrity model of the ARSC voting application.                  *)
(*                                                                         *)
(* The HTTP handlers are translated from server/routes.ts.  The bodies of  *)
(* server/storage.ts are placeholders ("replace with actual DB query"), so *)
(* the store is modelled as the tables declared in the shared schema with  *)
(* the behaviour the specification gives each storage function; the one    *)
(* storage body that has code (the hardcoded admin returned by             *)
(* getUserByReferenceNumber) is kept as written.                           *)
(*                                                                         *)
(* A vote submission is two steps, its reads and checks and then its write *)
(* (other requests run between the two); the other handlers make their    *)
(* decision on one storage call and are one action each.                   *)
(***************************************************************************)
EXTENDS Integers, FiniteSets, Sequences, Bags, TLC

\* ---------------------------------------------------------------- bounds
MaxUsers == 2
MaxPositions == 1
MaxCandidates == 1
MaxVoteRows == 2
NumSessions == 2
NumRequests == 1
NumRaceRequests == 2

Sessions == 1..NumSessions
Requests == 1..NumRequests
RaceRequests == 1..NumRaceRequests
UserIds == 1..MaxUsers
PositionIds == 1..MaxPositions
CandidateIds == 1..MaxCandidates
\* candidates.position_id is a plain integer column: the admin may name a
\* position that does not exist
CandidatePositionInputs == 1..(MaxPositions + 1)

\* ------------------------------------------------------ program constants
AdminId == 1
AdminRef == "ARSC2025"
AdminName == "admin"

\* inputs of the requests
Names == {AdminName, "n1"}
Refs == {"R1"}
LoginRefs == Refs \cup {AdminRef}
MaxVotesInputs == {1, 2}
NoLevel == "null"

\* JavaScript null / undefined
Null == [null |-> TRUE]

\* ------------------------------------------------------------------ state
VARIABLES
    users,            \* table users: id -> row
    positions,        \* table positions: id -> row
    candidates,       \* table candidates: id -> row
    votes,            \* table votes: bag of rows (the serial id left out)
    nextUserId, nextPositionId, nextCandidateId,  \* serial ids
    partylists,       \* table partylists: id -> row
    nextPartylistId,  \* serial id of partylists
    settings,         \* table school_settings: its row, Null before the first update
    sessions,         \* session store: session -> session user or Null
    reqs,             \* in-flight POST /api/votes requests
    resp              \* the last response sent

vars == <<users, positions, candidates, votes, nextUserId, nextPositionId,
          nextCandidateId, partylists, nextPartylistId, settings, sessions,
          reqs, resp>>

store == <<users, positions, candidates, votes, nextUserId, nextPositionId,
           nextCandidateId, partylists, nextPartylistId, settings>>

\* The admin row; storage.getUserByReferenceNumber returns it for AdminRef.
HardcodedAdmin ==
    [id |-> AdminId, name |-> AdminName, referenceNumber |-> AdminRef,
     isAdmin |-> TRUE, hasVoted |-> FALSE,
     schoolLevel |-> NoLevel, gradeLevel |-> 0]

\* The object the login handler puts in the session.
SessionUser(user) ==
    [id |-> user.id, name |-> user.name, isAdmin |-> user.isAdmin,
     hasVoted |-> user.hasVoted, schoolLevel |-> user.schoolLevel,
     gradeLevel |-> user.gradeLevel]

\* -------------------------------------------------------- storage reads
getUser(id) == IF id \in DOMAIN users THEN users[id] ELSE Null

getUserByReferenceNumber(referenceNumber) ==
    IF referenceNumber = AdminRef THEN HardcodedAdmin
    ELSE IF \E id \in DOMAIN users : users[id].referenceNumber = referenceNumber
         THEN users[CHOOSE id \in DOMAIN users :
                        users[id].referenceNumber = referenceNumber]
         ELSE Null

getPosition(id) == IF id \in DOMAIN positions THEN positions[id] ELSE Null

getCandidate(id) == IF id \in DOMAIN candidates THEN candidates[id] ELSE Null

\* the number of Votes of user u for position p
VoteCount(u, p) ==
    BagCardinality([v \in {w \in DOMAIN votes : w.userId = u /\ w.positionId = p}
                        |-> votes[v]])

\* ------------------------------------------------------- storage writes
\* users' after storage.createUser(data)
createUser(data) ==
    users @@ (nextUserId :>
        [id |-> nextUserId, name |-> data.name,
         referenceNumber |-> data.referenceNumber, isAdmin |-> data.isAdmin,
         hasVoted |-> FALSE, schoolLevel |-> data.schoolLevel,
         gradeLevel |-> data.gradeLevel])

\* users' after storage.updateUser(id, data); data is a partial row
updateUser(id, data) ==
    [users EXCEPT ![id] =
        [f \in DOMAIN users[id] |->
            IF f \in DOMAIN data THEN data[f] ELSE users[id][f]]]

\* users' after storage.deleteUser(id)
deleteUser(id) == [u \in DOMAIN users \ {id} |-> users[u]]

\* votes' after storage.resetUserVote(id)
resetUserVoteVotes(id) ==
    [v \in {w \in DOMAIN votes : w.userId # id} |-> votes[v]]

\* users' after storage.resetUserVote(id)
resetUserVoteUsers(id) == [users EXCEPT ![id].hasVoted = FALSE]

\* votes' after storage.createVote(data): a plain insert, the votes table
\* has no unique constraint on (userId, positionId)
createVoteVotes(data) ==
    votes (+) SetToBag({[userId |-> data.userId,
                         candidateId |-> data.candidateId,
                         positionId |-> data.positionId]})

\* users' after storage.createVote(data): the voter is marked has-voted
createVoteUsers(data) ==
    IF data.userId \in DOMAIN users
    THEN [users EXCEPT ![data.userId].hasVoted = TRUE]
    ELSE users

\* insertVoteSchema.parse
insertVoteSchema(body) ==
    [userId |-> body.userId, candidateId |-> body.candidateId,
     positionId |-> body.positionId]

\* ------------------------------------------------------------- responses
\* res.status(status).json(body)
Response(status, body) == [status |-> status, body |-> body]

\* the body { message: ... }
Msg(message) == [message |-> message]

\* res.status(204).end()
NoBody == [empty |-> TRUE]

\* ------------------------------------------------------------------- Init
IdleReq == [pc |-> "idle"]

Init ==
    /\ users = (AdminId :> HardcodedAdmin)
    /\ positions = <<>>
    /\ candidates = <<>>
    /\ votes = EmptyBag
    /\ nextUserId = AdminId + 1
    /\ nextPositionId = 1
    /\ nextCandidateId = 1
    /\ partylists = <<>>
    /\ nextPartylistId = 1
    /\ settings = Null
    /\ sessions = [s \in Sessions |-> Null]
    /\ reqs = [r \in Requests |-> IdleReq]
    /\ resp = Response(0, NoBody)

\* the admin test reduced to `!user`
NotAdmin_OnlyLoggedIn(s) == sessions[s] = Null

\* `!user || !user.isAdmin` of the admin routes
NotAdmin(s) == sessions[s] = Null \/ ~sessions[s].isAdmin

\* ----------------------------------------------------- POST /api/auth/login
\* Login without the comparison of the names
Login_NoNameCheck(s, name, referenceNumber) ==
    LET user == getUserByReferenceNumber(referenceNumber) IN
    /\ IF user = Null
       THEN /\ resp' = Response(401, Msg("Invalid credentials"))
            /\ UNCHANGED sessions
       ELSE /\ sessions' = [sessions EXCEPT ![s] = SessionUser(user)]
            /\ resp' = Response(200, SessionUser(user))
    /\ UNCHANGED <<store, reqs>>

Login(s, name, referenceNumber) ==
    LET user == getUserByReferenceNumber(referenceNumber) IN
    /\ IF user = Null \/ user.name # name
       THEN /\ resp' = Response(401, Msg("Invalid credentials"))
            /\ UNCHANGED sessions
       ELSE /\ sessions' = [sessions EXCEPT ![s] = SessionUser(user)]
            /\ resp' = Response(200, SessionUser(user))
    /\ UNCHANGED <<store, reqs>>

\* ---------------------------------------------------- POST /api/auth/logout
Logout(s) ==
    /\ sessions' = [sessions EXCEPT ![s] = Null]
    /\ resp' = Response(200, Msg("Logged out successfully"))
    /\ UNCHANGED <<store, reqs>>

\* --------------------------------------------------------- POST /api/votes
\* the handler ends with a response and no write
VoteReject(r, status, message) ==
    /\ resp' = Response(status, Msg(message))
    /\ reqs' = [reqs EXCEPT ![r] = IdleReq]
    /\ UNCHANGED <<store, sessions>>

\* VoteCheck without the comparison of candidate.positionId and position.id
VoteCheck_NoConsistency(user, positionId, candidateId) ==
    IF user = Null THEN [status |-> 401, message |-> "Not authenticated"]
    ELSE IF getUser(user.id) = Null
    THEN [status |-> 404, message |-> "User not found"]
    ELSE IF getPosition(positionId) = Null
    THEN [status |-> 404, message |-> "Position not found"]
    ELSE IF getCandidate(candidateId) = Null
    THEN [status |-> 404, message |-> "Candidate not found"]
    ELSE [status |-> 0, message |-> "ok"]

\* VoteCheck without `if (!user)`: the lookup of an undefined id finds no row
VoteCheck_NoAuthCheck(user, positionId, candidateId) ==
    IF user = Null \/ getUser(user.id) = Null
    THEN [status |-> 404, message |-> "User not found"]
    ELSE IF getPosition(positionId) = Null
    THEN [status |-> 404, message |-> "Position not found"]
    ELSE IF getCandidate(candidateId) = Null
    THEN [status |-> 404, message |-> "Candidate not found"]
    ELSE IF getCandidate(candidateId).positionId # positionId
    THEN [status |-> 400, message |-> "Candidate is not for this position"]
    ELSE [status |-> 0, message |-> "ok"]

\* VoteCheck without the lookup of the position
VoteCheck_NoPositionCheck(user, positionId, candidateId) ==
    IF user = Null THEN [status |-> 401, message |-> "Not authenticated"]
    ELSE IF getUser(user.id) = Null
    THEN [status |-> 404, message |-> "User not found"]
    ELSE IF getCandidate(candidateId) = Null
    THEN [status |-> 404, message |-> "Candidate not found"]
    ELSE IF getCandidate(candidateId).positionId # positionId
    THEN [status |-> 400, message |-> "Candidate is not for this position"]
    ELSE [status |-> 0, message |-> "ok"]

\* The checks of the handler, in the order of the code; "ok" when the
\* handler goes on to storage.createVote.  position.id is req.body.positionId.
VoteCheck(user, positionId, candidateId) ==
    IF user = Null THEN [status |-> 401, message |-> "Not authenticated"]
    ELSE IF getUser(user.id) = Null
    THEN [status |-> 404, message |-> "User not found"]
    ELSE IF getPosition(positionId) = Null
    THEN [status |-> 404, message |-> "Position not found"]
    ELSE IF getCandidate(candidateId) = Null
    THEN [status |-> 404, message |-> "Candidate not found"]
    ELSE IF getCandidate(candidateId).positionId # positionId
    THEN [status |-> 400, message |-> "Candidate is not for this position"]
    ELSE [status |-> 0, message |-> "ok"]

\* The request arrives with the session of its cookie and req.body =
\* {positionId, candidateId}; the handler runs its reads and checks.  The
\* reads touch one table each and only test existence, so they are taken
\* together; the write that follows is a separate step, other requests run
\* between the two.  A request takes the lowest free slot.
VoteValidate(r, s, positionId, candidateId) ==
    LET q == [pc |-> "createVote", sess |-> s, user |-> sessions[s],
              positionId |-> positionId, candidateId |-> candidateId]
        check == VoteCheck(q.user, positionId, candidateId)
    IN
    /\ reqs[r].pc = "idle"
    /\ \A r2 \in DOMAIN reqs : r2 < r => reqs[r2].pc # "idle"
    /\ IF check.status # 0
       THEN VoteReject(r, check.status, check.message)
       ELSE /\ reqs' = [reqs EXCEPT ![r] = q]
            /\ UNCHANGED <<store, sessions, resp>>

\* VoteCreate answering 201 without the call of storage.createVote
VoteCreate_NoWrite(r) ==
    LET q == reqs[r]
        voteData == insertVoteSchema([userId |-> q.user.id,
                                      candidateId |-> q.candidateId,
                                      positionId |-> q.positionId])
    IN
    /\ q.pc = "createVote"
    /\ BagCardinality(votes) < MaxVoteRows
    /\ sessions' = [sessions EXCEPT ![q.sess] = [q.user EXCEPT !.hasVoted = TRUE]]
    /\ resp' = Response(201, voteData)
    /\ reqs' = [reqs EXCEPT ![r] = IdleReq]
    /\ UNCHANGED store

\* VoteCreate taking the userId of the request body
VoteCreate_BodyUserId(r) ==
    LET q == reqs[r]
        voteData == insertVoteSchema([userId |-> q.body.userId,
                                      candidateId |-> q.candidateId,
                                      positionId |-> q.positionId])
    IN
    /\ q.pc = "createVote"
    /\ BagCardinality(votes) < MaxVoteRows
    /\ votes' = createVoteVotes(voteData)
    /\ users' = createVoteUsers(voteData)
    /\ sessions' = [sessions EXCEPT ![q.sess] = [q.user EXCEPT !.hasVoted = TRUE]]
    /\ resp' = Response(201, voteData)
    /\ reqs' = [reqs EXCEPT ![r] = IdleReq]
    /\ UNCHANGED <<positions, candidates, nextUserId, nextPositionId, nextCandidateId,
                   partylists, nextPartylistId, settings>>

\* `await storage.createVote(voteData)`, the session update and the 201
VoteCreate(r) ==
    LET q == reqs[r]
        voteData == insertVoteSchema([userId |-> q.user.id,
                                      candidateId |-> q.candidateId,
                                      positionId |-> q.positionId])
    IN
    /\ q.pc = "createVote"
    /\ BagCardinality(votes) < MaxVoteRows
    /\ votes' = createVoteVotes(voteData)
    /\ users' = createVoteUsers(voteData)
    /\ sessions' = [sessions EXCEPT ![q.sess] = [q.user EXCEPT !.hasVoted = TRUE]]
    /\ resp' = Response(201, voteData)
    /\ reqs' = [reqs EXCEPT ![r] = IdleReq]
    /\ UNCHANGED <<positions, candidates, nextUserId, nextPositionId, nextCandidateId,
                   partylists, nextPartylistId, settings>>

\* VoteCreateFail with the session update placed before the store write
VoteCreateFail_MarksSession(r) ==
    /\ reqs[r].pc = "createVote"
    /\ sessions' = [sessions EXCEPT ![reqs[r].sess] =
                        [reqs[r].user EXCEPT !.hasVoted = TRUE]]
    /\ resp' = Response(500, Msg("Internal server error"))
    /\ reqs' = [reqs EXCEPT ![r] = IdleReq]
    /\ UNCHANGED store

\* storage.createVote throws: the catch block answers 500
VoteCreateFail(r) ==
    /\ reqs[r].pc = "createVote"
    /\ VoteReject(r, 500, "Internal server error")

\* ------------------------------------------------------- admin: positions
AdminReject(status, message) ==
    /\ resp' = Response(status, Msg(message))
    /\ UNCHANGED <<store, sessions, reqs>>

\* POST /api/positions
CreatePosition(s, maxVotes) ==
    IF NotAdmin(s) THEN AdminReject(403, "Unauthorized")
    ELSE /\ nextPositionId <= MaxPositions
         /\ positions' = positions @@
                (nextPositionId :> [id |-> nextPositionId, maxVotes |-> maxVotes])
         /\ nextPositionId' = nextPositionId + 1
         /\ resp' = Response(201, positions'[nextPositionId])
         /\ UNCHANGED <<users, candidates, votes, nextUserId, nextCandidateId,
                        sessions, reqs,
                   partylists, nextPartylistId, settings>>

\* PUT /api/positions/:id
UpdatePosition(s, id, maxVotes) ==
    IF NotAdmin(s) THEN AdminReject(403, "Unauthorized")
    ELSE IF getPosition(id) = Null
    THEN AdminReject(404, "Position not found")
    ELSE /\ positions' = [positions EXCEPT ![id].maxVotes = maxVotes]
         /\ resp' = Response(200, positions'[id])
         /\ UNCHANGED <<users, candidates, votes, nextUserId, nextPositionId,
                        nextCandidateId, sessions, reqs,
                   partylists, nextPartylistId, settings>>

\* DELETE /api/positions/:id
DeletePosition(s, id) ==
    IF NotAdmin(s) THEN AdminReject(403, "Unauthorized")
    ELSE IF getPosition(id) = Null
    THEN AdminReject(404, "Position not found")
    ELSE /\ positions' = [p \in DOMAIN positions \ {id} |-> positions[p]]
         /\ resp' = Response(204, NoBody)
         /\ UNCHANGED <<users, candidates, votes, nextUserId, nextPositionId,
                        nextCandidateId, sessions, reqs,
                   partylists, nextPartylistId, settings>>

\* ------------------------------------------------------ admin: candidates
\* POST /api/candidates
CreateCandidate(s, positionId) ==
    IF NotAdmin(s) THEN AdminReject(403, "Unauthorized")
    ELSE /\ nextCandidateId <= MaxCandidates
         /\ candidates' = candidates @@
                (nextCandidateId :> [id |-> nextCandidateId, positionId |-> positionId])
         /\ nextCandidateId' = nextCandidateId + 1
         /\ resp' = Response(201, candidates'[nextCandidateId])
         /\ UNCHANGED <<users, positions, votes, nextUserId, nextPositionId,
                        sessions, reqs,
                   partylists, nextPartylistId, settings>>

\* PUT /api/candidates/:id
UpdateCandidate(s, id, positionId) ==
    IF NotAdmin(s) THEN AdminReject(403, "Unauthorized")
    ELSE IF getCandidate(id) = Null
    THEN AdminReject(404, "Candidate not found")
    ELSE /\ candidates' = [candidates EXCEPT ![id].positionId = positionId]
         /\ resp' = Response(200, candidates'[id])
         /\ UNCHANGED <<users, positions, votes, nextUserId, nextPositionId,
                        nextCandidateId, sessions, reqs,
                   partylists, nextPartylistId, settings>>

\* DeleteCandidate that removes the Votes for the candidate with it
DeleteCandidate_Cascade(s, id) ==
    IF NotAdmin(s) THEN AdminReject(403, "Unauthorized")
    ELSE IF getCandidate(id) = Null
    THEN AdminReject(404, "Candidate not found")
    ELSE /\ candidates' = [c \in DOMAIN candidates \ {id} |-> candidates[c]]
         /\ votes' = [v \in {w \in DOMAIN votes : w.candidateId # id} |-> votes[v]]
         /\ resp' = Response(204, NoBody)
         /\ UNCHANGED <<users, positions, nextUserId, nextPositionId,
                        nextCandidateId, sessions, reqs,
                        partylists, nextPartylistId, settings>>

\* DELETE /api/candidates/:id
DeleteCandidate(s, id) ==
    IF NotAdmin(s) THEN AdminReject(403, "Unauthorized")
    ELSE IF getCandidate(id) = Null
    THEN AdminReject(404, "Candidate not found")
    ELSE /\ candidates' = [c \in DOMAIN candidates \ {id} |-> candidates[c]]
         /\ resp' = Response(204, NoBody)
         /\ UNCHANGED <<users, positions, votes, nextUserId, nextPositionId,
                        nextCandidateId, sessions, reqs,
                   partylists, nextPartylistId, settings>>

\* ----------------------------------------------------------- admin: users
\* insertUserSchema picking has_voted as well
InsertUserFields_WithHasVoted ==
    {"name", "referenceNumber", "isAdmin", "hasVoted", "schoolLevel", "gradeLevel"}

\* the columns insertUserSchema picks
InsertUserFields ==
    {"name", "referenceNumber", "isAdmin", "schoolLevel", "gradeLevel"}

\* insertUserSchema.partial().parse(body): unknown keys are stripped
insertUserSchemaPartial(body) ==
    [f \in DOMAIN body \cap InsertUserFields |-> body[f]]

\* request bodies of POST /api/users and PUT /api/users/:id
CreateUserBodies ==
    {[name |-> "n1", referenceNumber |-> ref, isAdmin |-> FALSE,
      schoolLevel |-> NoLevel, gradeLevel |-> 0] : ref \in Refs}

UpdateUserBodies ==
    {[hasVoted |-> TRUE, name |-> "n1"], [hasVoted |-> FALSE]}

\* the unique constraint of users.reference_number
RefTakenByOther(id, referenceNumber) ==
    \E u \in DOMAIN users \ {id} : users[u].referenceNumber = referenceNumber

\* POST /api/users
CreateUser(s, body) ==
    LET data == insertUserSchemaPartial(body) IN
    IF NotAdmin(s) THEN AdminReject(403, "Unauthorized")
    ELSE IF getUserByReferenceNumber(data.referenceNumber) # Null
    THEN AdminReject(409, "User with this reference number already exists")
    ELSE IF RefTakenByOther(0, data.referenceNumber)
    THEN AdminReject(500, "Internal server error")
    ELSE /\ nextUserId <= MaxUsers
         /\ users' = createUser(data)
         /\ nextUserId' = nextUserId + 1
         /\ resp' = Response(201, users'[nextUserId])
         /\ UNCHANGED <<positions, candidates, votes, nextPositionId,
                        nextCandidateId, sessions, reqs,
                   partylists, nextPartylistId, settings>>

\* PUT /api/users/:id
UpdateUser(s, id, body) ==
    LET data == insertUserSchemaPartial(body)
        existingUser == getUserByReferenceNumber(data.referenceNumber)
    IN
    IF NotAdmin(s) THEN AdminReject(403, "Unauthorized")
    ELSE IF "referenceNumber" \in DOMAIN data
            /\ existingUser # Null /\ existingUser.id # id
    THEN AdminReject(409, "User with this reference number already exists")
    ELSE IF getUser(id) = Null
    THEN AdminReject(404, "User not found")
    ELSE IF "referenceNumber" \in DOMAIN data
            /\ RefTakenByOther(id, data.referenceNumber)
    THEN AdminReject(500, "Internal server error")
    ELSE /\ users' = updateUser(id, data)
         /\ resp' = Response(200, users'[id])
         /\ UNCHANGED <<positions, candidates, votes, nextUserId, nextPositionId,
                        nextCandidateId, sessions, reqs,
                   partylists, nextPartylistId, settings>>

\* DeleteUser without `if (id === user.id)`
DeleteUser_NoSelfCheck(s, id) ==
    IF NotAdmin(s) THEN AdminReject(403, "Unauthorized")
    ELSE IF getUser(id) = Null
    THEN AdminReject(404, "User not found")
    ELSE /\ users' = deleteUser(id)
         /\ resp' = Response(204, NoBody)
         /\ UNCHANGED <<positions, candidates, votes, nextUserId, nextPositionId,
                        nextCandidateId, sessions, reqs,
                   partylists, nextPartylistId, settings>>

\* DELETE /api/users/:id
DeleteUser(s, id) ==
    IF NotAdmin(s) THEN AdminReject(403, "Unauthorized")
    ELSE IF id = sessions[s].id
    THEN AdminReject(400, "Cannot delete your own account")
    ELSE IF getUser(id) = Null
    THEN AdminReject(404, "User not found")
    ELSE /\ users' = deleteUser(id)
         /\ resp' = Response(204, NoBody)
         /\ UNCHANGED <<positions, candidates, votes, nextUserId, nextPositionId,
                        nextCandidateId, sessions, reqs,
                   partylists, nextPartylistId, settings>>

\* ResetVote resetting the session user instead of the user of the path
ResetVote_WrongId(s, id) ==
    IF NotAdmin(s) THEN AdminReject(403, "Unauthorized")
    ELSE IF getUser(id) = Null \/ getUser(sessions[s].id) = Null
    THEN AdminReject(404, "User not found")
    ELSE /\ votes' = resetUserVoteVotes(sessions[s].id)
         /\ users' = resetUserVoteUsers(sessions[s].id)
         /\ resp' = Response(200, users'[id])
         /\ UNCHANGED <<positions, candidates, nextUserId, nextPositionId,
                        nextCandidateId, sessions, reqs,
                   partylists, nextPartylistId, settings>>

\* POST /api/users/:id/reset-vote
ResetVote(s, id) ==
    IF NotAdmin(s) THEN AdminReject(403, "Unauthorized")
    ELSE IF getUser(id) = Null
    THEN AdminReject(404, "User not found")
    ELSE /\ votes' = resetUserVoteVotes(id)
         /\ users' = resetUserVoteUsers(id)
         /\ resp' = Response(200, users'[id])
         /\ UNCHANGED <<positions, candidates, nextUserId, nextPositionId,
                        nextCandidateId, sessions, reqs,
                   partylists, nextPartylistId, settings>>

\* ------------------------------------------------------ admin: partylists
MaxPartylists == 1

PartylistIds == 1..MaxPartylists
PartylistNames == {"p1", "p2"}

getPartylist(id) == IF id \in DOMAIN partylists THEN partylists[id] ELSE Null

\* POST /api/partylists
CreatePartylist(s, name) ==
    IF NotAdmin(s) THEN AdminReject(403, "Unauthorized")
    ELSE /\ nextPartylistId <= MaxPartylists
         /\ partylists' = partylists @@
                (nextPartylistId :> [id |-> nextPartylistId, name |-> name])
         /\ nextPartylistId' = nextPartylistId + 1
         /\ resp' = Response(201, partylists'[nextPartylistId])
         /\ UNCHANGED <<users, positions, candidates, votes, nextUserId,
                        nextPositionId, nextCandidateId, settings, sessions, reqs>>

\* PUT /api/partylists/:id
UpdatePartylist(s, id, name) ==
    IF NotAdmin(s) THEN AdminReject(403, "Unauthorized")
    ELSE IF getPartylist(id) = Null
    THEN AdminReject(404, "Partylist not found")
    ELSE /\ partylists' = [partylists EXCEPT ![id].name = name]
         /\ resp' = Response(200, partylists'[id])
         /\ UNCHANGED <<users, positions, candidates, votes, nextUserId,
                        nextPositionId, nextCandidateId, nextPartylistId,
                        settings, sessions, reqs>>

\* DELETE /api/partylists/:id
DeletePartylist(s, id) ==
    IF NotAdmin(s) THEN AdminReject(403, "Unauthorized")
    ELSE IF getPartylist(id) = Null
    THEN AdminReject(404, "Partylist not found")
    ELSE /\ partylists' = [p \in DOMAIN partylists \ {id} |-> partylists[p]]
         /\ resp' = Response(204, NoBody)
         /\ UNCHANGED <<users, positions, candidates, votes, nextUserId,
                        nextPositionId, nextCandidateId, nextPartylistId,
                        settings, sessions, reqs>>

\* -------------------------------------------------------- admin: settings
NoDate == "null"

\* startDate of the request body: empty, a date, not a date
StartDateInputs == {"", "2025-01-01", "soon"}

\* new Date(startDate).toISOString(), which throws on an invalid date
toISOString(startDate) ==
    IF startDate = "2025-01-01" THEN "2025-01-01T00:00:00.000Z" ELSE "RangeError"

\* PUT /api/settings.  The start date reaches
\* insertSchoolSettingsSchema.partial().parse as an ISO string; the schema
\* generated for the timestamp column takes it or refuses it (ZodError, 400)
\* with the version of the schema generator, so both outcomes are kept.
UpdateSettings(s, electionStatus, startDate) ==
    IF NotAdmin(s) THEN AdminReject(403, "Unauthorized")
    ELSE IF startDate # "" /\ toISOString(startDate) = "RangeError"
    THEN AdminReject(400, "Invalid start date format")
    ELSE \/ /\ startDate # ""
            /\ AdminReject(400, "Validation error")
         \/ /\ settings' = [electionStatus |-> electionStatus,
                             startDate |-> IF startDate # ""
                                           THEN toISOString(startDate) ELSE NoDate]
            /\ resp' = Response(200, settings')
            /\ UNCHANGED <<users, positions, candidates, votes, nextUserId,
                           nextPositionId, nextCandidateId, partylists,
                           nextPartylistId, sessions, reqs>>

\* --------------------------------------- POST /api/students/select-level
SelectLevel(s, schoolLevel, gradeLevel) ==
    LET user == sessions[s] IN
    IF user = Null
    THEN AdminReject(401, "Not authenticated")
    ELSE IF getUser(user.id) = Null
    THEN AdminReject(404, "User not found")
    ELSE /\ users' = updateUser(user.id, [schoolLevel |-> schoolLevel,
                                          gradeLevel |-> gradeLevel])
         /\ sessions' = [sessions EXCEPT ![s] =
                            [user EXCEPT !.schoolLevel = schoolLevel,
                                         !.gradeLevel = gradeLevel]]
         /\ resp' = Response(200, [id |-> user.id, name |-> users'[user.id].name,
                                   schoolLevel |-> schoolLevel,
                                   gradeLevel |-> gradeLevel])
         /\ UNCHANGED <<positions, candidates, votes, nextUserId, nextPositionId,
                        nextCandidateId, partylists, nextPartylistId, settings,
                        reqs>>

\* ---------------------------------------------------------- GET /api/users
GetUsers(s) ==
    IF NotAdmin(s) THEN AdminReject(403, "Unauthorized")
    ELSE /\ resp' = Response(200, [users |-> users])
         /\ UNCHANGED <<store, sessions, reqs>>

\* ----------------------------------------------------- GET /api/votes/stats
\* the number of rows of votes that satisfy P
CountVotes(P(_)) ==
    BagCardinality([v \in {w \in DOMAIN votes : P(w)} |-> votes[v]])

\* storage.getVoteCounts(): the rows of votes counted by position and
\* candidate
getVoteCounts ==
    {[positionId |-> k[1], candidateId |-> k[2],
      count |-> LET Same(w) == w.positionId = k[1] /\ w.candidateId = k[2]
                IN CountVotes(Same)] :
        k \in {<<v.positionId, v.candidateId>> : v \in DOMAIN votes}}

\* .reduce((sum, vc) => sum + vc.count, 0)
RECURSIVE SumCount(_)
SumCount(voteCounts) ==
    IF voteCounts = {} THEN 0
    ELSE LET vc == CHOOSE x \in voteCounts : TRUE
         IN vc.count + SumCount(voteCounts \ {vc})

\* Percentage without the guard of a zero denominator: the quotient 0/0 or
\* n/0 of the division is kept
Percentage_NoZeroGuard(count, total) == [num |-> count * 100, den |-> total]

\* `total > 0 ? (count / total) * 100 : 0`, the quotient kept as a fraction
Percentage(count, total) ==
    IF total > 0 THEN [num |-> count * 100, den |-> total]
    ELSE [num |-> 0, den |-> 1]

\* totalStudents counting the admins too
StatsStudents_WithAdmins == DOMAIN users

\* users.filter(u => !u.isAdmin)
StatsStudents == {u \in DOMAIN users : ~users[u].isAdmin}

SchoolLevels == {"elementary", "juniorHigh", "seniorHigh"}

\* positionVotes summing the counts of every position
PositionVotes_AllPositions(positionId) == SumCount(getVoteCounts)

\* voteCounts.filter(vc => vc.positionId === position.id).reduce(...)
PositionVotes(positionId) ==
    SumCount({vc \in getVoteCounts : vc.positionId = positionId})

\* the candidate's count taken as the count of its position
CandidateVotes_OfPosition(positionId, candidateId) ==
    SumCount({vc \in getVoteCounts : vc.positionId = positionId})

\* voteCounts.find(vc => vc.positionId === position.id &&
\*                       vc.candidateId === candidate.id)?.count || 0
CandidateVotes(positionId, candidateId) ==
    LET found == {vc \in getVoteCounts : vc.positionId = positionId
                                         /\ vc.candidateId = candidateId}
    IN IF found = {} THEN 0 ELSE (CHOOSE vc \in found : TRUE).count

\* StatsReport counting every student of a level as voted
StatsReport_LevelAllVoted ==
    LET totalStudents == Cardinality(StatsStudents)
        votedStudents == Cardinality({u \in StatsStudents : users[u].hasVoted})
    IN
    [summary |->
        [totalStudents |-> totalStudents,
         votedStudents |-> votedStudents,
         participationRate |-> Percentage(votedStudents, totalStudents)],
     votesByPosition |->
        [p \in DOMAIN positions |->
            [positionId |-> p,
             votes |-> PositionVotes(p),
             percentage |-> Percentage(PositionVotes(p), totalStudents)]],
     votesBySchoolLevel |->
        [level \in SchoolLevels |->
            LET levelUsers == {u \in StatsStudents : users[u].schoolLevel = level}
                levelVotedUsers == levelUsers
            IN [schoolLevel |-> level,
                totalStudents |-> Cardinality(levelUsers),
                votedStudents |-> Cardinality(levelVotedUsers),
                percentage |-> Percentage(Cardinality(levelVotedUsers),
                                          Cardinality(levelUsers))]],
     votesByCandidateAndPosition |->
        [p \in DOMAIN positions |->
            [positionId |-> p,
             candidates |->
                [c \in {d \in DOMAIN candidates : candidates[d].positionId = p} |->
                    [candidateId |-> c,
                     votes |-> CandidateVotes(p, c),
                     percentage |-> Percentage(CandidateVotes(p, c),
                                               totalStudents)]]]]]

\* the body of the report
StatsReport ==
    LET totalStudents == Cardinality(StatsStudents)
        votedStudents == Cardinality({u \in StatsStudents : users[u].hasVoted})
    IN
    [summary |->
        [totalStudents |-> totalStudents,
         votedStudents |-> votedStudents,
         participationRate |-> Percentage(votedStudents, totalStudents)],
     votesByPosition |->
        [p \in DOMAIN positions |->
            [positionId |-> p,
             votes |-> PositionVotes(p),
             percentage |-> Percentage(PositionVotes(p), totalStudents)]],
     votesBySchoolLevel |->
        [level \in SchoolLevels |->
            LET levelUsers == {u \in StatsStudents : users[u].schoolLevel = level}
                levelVotedUsers == {u \in levelUsers : users[u].hasVoted}
            IN [schoolLevel |-> level,
                totalStudents |-> Cardinality(levelUsers),
                votedStudents |-> Cardinality(levelVotedUsers),
                percentage |-> Percentage(Cardinality(levelVotedUsers),
                                          Cardinality(levelUsers))]],
     votesByCandidateAndPosition |->
        [p \in DOMAIN positions |->
            [positionId |-> p,
             candidates |->
                [c \in {d \in DOMAIN candidates : candidates[d].positionId = p} |->
                    [candidateId |-> c,
                     votes |-> CandidateVotes(p, c),
                     percentage |-> Percentage(CandidateVotes(p, c),
                                               totalStudents)]]]]]

\* GetStats that marks the caller's session as it reports
GetStats_TouchesSession(s) ==
    IF NotAdmin(s) THEN AdminReject(403, "Unauthorized")
    ELSE /\ resp' = Response(200, StatsReport)
         /\ sessions' = [sessions EXCEPT ![s].hasVoted = TRUE]
         /\ UNCHANGED <<store, reqs>>

\* the handler; its four reads are taken together
GetStats(s) ==
    IF NotAdmin(s) THEN AdminReject(403, "Unauthorized")
    ELSE /\ resp' = Response(200, StatsReport)
         /\ UNCHANGED <<store, sessions, reqs>>

\* ------------------------------------------------------------------- Next
Next ==
    \/ \E s \in Sessions, name \in Names, ref \in LoginRefs : Login(s, name, ref)
    \/ \E s \in Sessions : Logout(s)
    \/ \E r \in Requests, s \in Sessions, p \in PositionIds, c \in CandidateIds :
          VoteValidate(r, s, p, c)
    \/ \E r \in Requests : VoteCreate(r)
    \/ \E r \in Requests : VoteCreateFail(r)
    \/ \E s \in Sessions, m \in MaxVotesInputs : CreatePosition(s, m)
    \/ \E s \in Sessions, id \in PositionIds, m \in MaxVotesInputs :
          UpdatePosition(s, id, m)
    \/ \E s \in Sessions, id \in PositionIds : DeletePosition(s, id)
    \/ \E s \in Sessions, p \in CandidatePositionInputs : CreateCandidate(s, p)
    \/ \E s \in Sessions, id \in CandidateIds, p \in CandidatePositionInputs :
          UpdateCandidate(s, id, p)
    \/ \E s \in Sessions, id \in CandidateIds : DeleteCandidate(s, id)
    \/ \E s \in Sessions, body \in CreateUserBodies : CreateUser(s, body)
    \/ \E s \in Sessions, id \in UserIds, body \in UpdateUserBodies :
          UpdateUser(s, id, body)
    \/ \E s \in Sessions, id \in UserIds : DeleteUser(s, id)
    \/ \E s \in Sessions, id \in UserIds : ResetVote(s, id)

Spec == Init /\ [][Next]_vars

\* ------------------------------------------------- concurrent submissions
\* An election that is set up (one student, one position with its
\* candidate) and in which every submission for a (user, position) arrives
\* before any Vote of that user for that position is written: submissions
\* for the same pair overlap.
InitRace ==
    /\ users = (AdminId :> HardcodedAdmin) @@
               (2 :> [id |-> 2, name |-> "n1", referenceNumber |-> "R1",
                      isAdmin |-> FALSE, hasVoted |-> FALSE,
                      schoolLevel |-> NoLevel, gradeLevel |-> 0])
    /\ positions = (1 :> [id |-> 1, maxVotes |-> 1])
    /\ candidates = (1 :> [id |-> 1, positionId |-> 1])
    /\ votes = EmptyBag
    /\ nextUserId = 3
    /\ nextPositionId = 2
    /\ nextCandidateId = 2
    /\ partylists = <<>>
    /\ nextPartylistId = 1
    /\ settings = Null
    /\ sessions = [s \in Sessions |-> Null]
    /\ reqs = [r \in RaceRequests |-> IdleReq]
    /\ resp = Response(0, NoBody)

RaceSubmit(r, s, positionId, candidateId) ==
    /\ sessions[s] # Null
    /\ VoteCount(sessions[s].id, positionId) = 0
    /\ VoteValidate(r, s, positionId, candidateId)

NextRace ==
    \/ \E s \in Sessions, name \in Names, ref \in LoginRefs : Login(s, name, ref)
    \/ \E s \in Sessions : Logout(s)
    \/ \E r \in RaceRequests, s \in Sessions, p \in PositionIds, c \in CandidateIds :
          RaceSubmit(r, s, p, c)
    \/ \E r \in RaceRequests : VoteCreate(r)
    \/ \E r \in RaceRequests : VoteCreateFail(r)

SpecRace == InitRace /\ [][NextRace]_vars

\* ------------------------------------------- concurrent user administration
\* The user handlers step by step: each `await` of a storage call is a point
\* where another request runs.  The table users carries the unique
\* constraint of reference_number: a write that would repeat a reference
\* number throws, and the handler's catch block answers 500.
MaxRaceUsers == 3
MaxBatch == 2

RaceUserIds == 1..MaxRaceUsers

\* reference numbers of the request bodies; insertUserSchema accepts any
\* string, the empty one included
RefInputs == Refs \cup {""}

\* a body insertUserSchema accepts
CreateUserBody(referenceNumber) ==
    [name |-> "n1", referenceNumber |-> referenceNumber, isAdmin |-> FALSE,
     schoolLevel |-> NoLevel, gradeLevel |-> 0]

\* bodies of POST /api/users/bulk: arrays of 1..MaxBatch user bodies
BulkBodies ==
    UNION {[1..n -> {CreateUserBody(ref) : ref \in RefInputs}] : n \in 1..MaxBatch}

\* bodies of PUT /api/users/:id that change the reference number
UpdateRefBodies == {[referenceNumber |-> ref] : ref \in RefInputs}

InitUsers ==
    /\ users = (AdminId :> HardcodedAdmin)
    /\ positions = <<>>
    /\ candidates = <<>>
    /\ votes = EmptyBag
    /\ nextUserId = AdminId + 1
    /\ nextPositionId = 1
    /\ nextCandidateId = 1
    /\ partylists = <<>>
    /\ nextPartylistId = 1
    /\ settings = Null
    /\ sessions = [s \in Sessions |-> Null]
    /\ reqs = [r \in RaceRequests |-> IdleReq]
    /\ resp = Response(0, NoBody)

\* a request takes the lowest free slot
FreeSlot(r) ==
    /\ reqs[r].pc = "idle"
    /\ \A r2 \in DOMAIN reqs : r2 < r => reqs[r2].pc # "idle"

\* the handler ends with a response and no write
UserReject(r, status, message) ==
    /\ resp' = Response(status, Msg(message))
    /\ reqs' = [reqs EXCEPT ![r] = IdleReq]
    /\ UNCHANGED <<store, sessions>>

\* POST /api/users up to `await storage.getUserByReferenceNumber`
CreateUserCheck(r, s, body) ==
    LET data == insertUserSchemaPartial(body) IN
    /\ FreeSlot(r)
    /\ IF NotAdmin(s) THEN UserReject(r, 403, "Unauthorized")
       ELSE IF getUserByReferenceNumber(data.referenceNumber) # Null
       THEN UserReject(r, 409, "User with this reference number already exists")
       ELSE /\ reqs' = [reqs EXCEPT ![r] = [pc |-> "createUser", data |-> data]]
            /\ UNCHANGED <<store, sessions, resp>>

\* CreateUserWrite on a table without the unique constraint
CreateUserWrite_NoConstraint(r) ==
    LET q == reqs[r] IN
    /\ q.pc = "createUser"
    /\ nextUserId <= MaxRaceUsers
    /\ users' = createUser(q.data)
    /\ nextUserId' = nextUserId + 1
    /\ resp' = Response(201, users'[nextUserId])
    /\ reqs' = [reqs EXCEPT ![r] = IdleReq]
    /\ UNCHANGED <<positions, candidates, votes, nextPositionId,
                   nextCandidateId, sessions,
                   partylists, nextPartylistId, settings>>

\* POST /api/users from `await storage.createUser(data)` on
CreateUserWrite(r) ==
    LET q == reqs[r] IN
    /\ q.pc = "createUser"
    /\ IF RefTakenByOther(0, q.data.referenceNumber)
       THEN UserReject(r, 500, "Internal server error")
       ELSE /\ nextUserId <= MaxRaceUsers
            /\ users' = createUser(q.data)
            /\ nextUserId' = nextUserId + 1
            /\ resp' = Response(201, users'[nextUserId])
            /\ reqs' = [reqs EXCEPT ![r] = IdleReq]
            /\ UNCHANGED <<positions, candidates, votes, nextPositionId,
                           nextCandidateId, sessions,
                   partylists, nextPartylistId, settings>>

\* the entry of a user skipped by the bulk loop
BulkSkipped(userData) ==
    [success |-> FALSE, referenceNumber |-> userData.referenceNumber,
     message |-> "User with this reference number already exists"]

\* the entry of a user created by the bulk loop
BulkCreated(newUser) ==
    [success |-> TRUE, id |-> newUser.id, name |-> newUser.name,
     referenceNumber |-> newUser.referenceNumber]

\* the bulk loop after the entry of usersData[q.i] was pushed: the next
\* iteration, or res.status(201).json(results) after the last
BulkAdvance(r, q, results) ==
    IF q.i = Len(q.usersData)
    THEN /\ resp' = Response(201, [results |-> results])
         /\ reqs' = [reqs EXCEPT ![r] = IdleReq]
    ELSE /\ reqs' = [reqs EXCEPT ![r] =
                        [q EXCEPT !.pc = "bulkCheck", !.i = q.i + 1,
                                  !.results = results]]
         /\ UNCHANGED resp

\* POST /api/users/bulk: the admin check and z.array(insertUserSchema).parse
BulkStart(r, s, body) ==
    /\ FreeSlot(r)
    /\ IF NotAdmin(s) THEN UserReject(r, 403, "Unauthorized")
       ELSE /\ reqs' = [reqs EXCEPT ![r] =
                           [pc |-> "bulkCheck", usersData |-> body, i |-> 1,
                            results |-> <<>>]]
            /\ UNCHANGED <<store, sessions, resp>>

\* one iteration up to `await storage.getUserByReferenceNumber`
BulkCheck(r) ==
    LET q == reqs[r]
        userData == q.usersData[q.i]
    IN
    /\ q.pc = "bulkCheck"
    /\ UNCHANGED <<store, sessions>>
    /\ IF getUserByReferenceNumber(userData.referenceNumber) # Null
       THEN BulkAdvance(r, q, Append(q.results, BulkSkipped(userData)))
       ELSE /\ reqs' = [reqs EXCEPT ![r].pc = "bulkCreate"]
            /\ UNCHANGED resp

\* one iteration from `await storage.createUser(userData)` on; a throwing
\* createUser leaves the loop for the catch block
BulkCreate(r) ==
    LET q == reqs[r]
        userData == q.usersData[q.i]
    IN
    /\ q.pc = "bulkCreate"
    /\ IF RefTakenByOther(0, userData.referenceNumber)
       THEN UserReject(r, 500, "Internal server error")
       ELSE /\ nextUserId <= MaxRaceUsers
            /\ users' = createUser(userData)
            /\ nextUserId' = nextUserId + 1
            /\ BulkAdvance(r, q, Append(q.results, BulkCreated(users'[nextUserId])))
            /\ UNCHANGED <<positions, candidates, votes, nextPositionId,
                           nextCandidateId, sessions,
                   partylists, nextPartylistId, settings>>

\* PUT /api/users/:id up to `await storage.updateUser`
UpdateUserCheck(r, s, id, body) ==
    LET data == insertUserSchemaPartial(body)
        existingUser == getUserByReferenceNumber(data.referenceNumber)
    IN
    /\ FreeSlot(r)
    /\ IF NotAdmin(s) THEN UserReject(r, 403, "Unauthorized")
       ELSE IF "referenceNumber" \in DOMAIN data /\ data.referenceNumber # ""
               /\ existingUser # Null /\ existingUser.id # id
       THEN UserReject(r, 409, "User with this reference number already exists")
       ELSE /\ reqs' = [reqs EXCEPT ![r] =
                           [pc |-> "updateUser", id |-> id, data |-> data]]
            /\ UNCHANGED <<store, sessions, resp>>

\* PUT /api/users/:id from `await storage.updateUser(id, data)` on
UpdateUserWrite(r) ==
    LET q == reqs[r] IN
    /\ q.pc = "updateUser"
    /\ IF getUser(q.id) = Null
       THEN UserReject(r, 404, "User not found")
       ELSE IF "referenceNumber" \in DOMAIN q.data
               /\ RefTakenByOther(q.id, q.data.referenceNumber)
       THEN UserReject(r, 500, "Internal server error")
       ELSE /\ users' = updateUser(q.id, q.data)
            /\ resp' = Response(200, users'[q.id])
            /\ reqs' = [reqs EXCEPT ![r] = IdleReq]
            /\ UNCHANGED <<positions, candidates, votes, nextUserId,
                           nextPositionId, nextCandidateId, sessions,
                   partylists, nextPartylistId, settings>>

NextUsers ==
    \/ \E s \in Sessions, name \in Names, ref \in LoginRefs : Login(s, name, ref)
    \/ \E r \in RaceRequests, s \in Sessions, ref \in RefInputs :
          CreateUserCheck(r, s, CreateUserBody(ref))
    \/ \E r \in RaceRequests : CreateUserWrite(r)
    \/ \E r \in RaceRequests, s \in Sessions, body \in BulkBodies :
          BulkStart(r, s, body)
    \/ \E r \in RaceRequests : BulkCheck(r)
    \/ \E r \in RaceRequests : BulkCreate(r)
    \/ \E r \in RaceRequests, s \in Sessions, id \in RaceUserIds,
          body \in UpdateRefBodies : UpdateUserCheck(r, s, id, body)
    \/ \E r \in RaceRequests : UpdateUserWrite(r)

SpecUsers == InitUsers /\ [][NextUsers]_vars

\* ------------------------------------------ every operation next to votes
\* One browser session, the admin and the students logging in in turn,
\* runs every operation that the store offers next to existing Votes.
FrameSessions == {1}
LevelInputs == {"elementary"}
GradeInputs == {3}
FramePartylistNames == {"p1"}

NextFrame ==
    \/ \E s \in FrameSessions, name \in Names, ref \in LoginRefs : Login(s, name, ref)
    \/ \E r \in Requests, s \in FrameSessions, p \in PositionIds, c \in CandidateIds :
          VoteValidate(r, s, p, c)
    \/ \E r \in Requests : VoteCreate(r)
    \/ \E s \in FrameSessions, m \in MaxVotesInputs : CreatePosition(s, m)
    \/ \E s \in FrameSessions, id \in PositionIds, m \in MaxVotesInputs :
          UpdatePosition(s, id, m)
    \/ \E s \in FrameSessions, id \in PositionIds : DeletePosition(s, id)
    \/ \E s \in FrameSessions, p \in CandidatePositionInputs : CreateCandidate(s, p)
    \/ \E s \in FrameSessions, id \in CandidateIds, p \in CandidatePositionInputs :
          UpdateCandidate(s, id, p)
    \/ \E s \in FrameSessions, id \in CandidateIds : DeleteCandidate(s, id)
    \/ \E s \in FrameSessions, body \in CreateUserBodies : CreateUser(s, body)
    \/ \E s \in FrameSessions, id \in UserIds, body \in UpdateUserBodies :
          UpdateUser(s, id, body)
    \/ \E s \in FrameSessions, id \in UserIds : DeleteUser(s, id)
    \/ \E s \in FrameSessions, id \in UserIds : ResetVote(s, id)
    \/ \E s \in FrameSessions, name \in FramePartylistNames : CreatePartylist(s, name)
    \/ \E s \in FrameSessions, id \in PartylistIds, name \in FramePartylistNames :
          UpdatePartylist(s, id, name)
    \/ \E s \in FrameSessions, id \in PartylistIds : DeletePartylist(s, id)
    \/ \E s \in FrameSessions, l \in LevelInputs, g \in GradeInputs : SelectLevel(s, l, g)
    \/ \E s \in FrameSessions : GetStats(s)

SpecFrame == Init /\ [][NextFrame]_vars

\* ------------------------------------------------- an election under way
\* The admin has registered NumStudents students, NumStatsPositions
\* positions and a candidate for each position, with a second candidate for
\* position 1; the students and the admin vote, the admin resets votes and
\* deletes students, and asks for the report.
NumStudents == 2
NumStatsPositions == 2

StudentRefs == <<"R1", "R2", "R3", "R4">>
StatsUserIds == 1..(NumStudents + 1)
StatsPositionIds == 1..NumStatsPositions
StatsCandidateIds == 1..(NumStatsPositions + 1)
StatsLoginRefs == {StudentRefs[i] : i \in 1..NumStudents} \cup {AdminRef}

InitStats ==
    /\ users = [id \in StatsUserIds |->
                   IF id = AdminId THEN HardcodedAdmin
                   ELSE [id |-> id, name |-> "n1",
                         referenceNumber |-> StudentRefs[id - 1],
                         isAdmin |-> FALSE, hasVoted |-> FALSE,
                         schoolLevel |-> NoLevel, gradeLevel |-> 0]]
    /\ positions = [p \in StatsPositionIds |-> [id |-> p, maxVotes |-> 1]]
    /\ candidates = [c \in StatsCandidateIds |->
                        [id |-> c,
                         positionId |-> IF c <= NumStatsPositions THEN c ELSE 1]]
    /\ votes = EmptyBag
    /\ nextUserId = NumStudents + 2
    /\ nextPositionId = NumStatsPositions + 1
    /\ nextCandidateId = NumStatsPositions + 2
    /\ partylists = <<>>
    /\ nextPartylistId = 1
    /\ settings = Null
    /\ sessions = [s \in Sessions |-> Null]
    /\ reqs = [r \in Requests |-> IdleReq]
    /\ resp = Response(0, NoBody)

NextStats ==
    \/ \E s \in FrameSessions, name \in Names, ref \in StatsLoginRefs :
          Login(s, name, ref)
    \/ \E r \in Requests, s \in FrameSessions, p \in StatsPositionIds,
          c \in StatsCandidateIds : VoteValidate(r, s, p, c)
    \/ \E r \in Requests : VoteCreate(r)
    \/ \E s \in FrameSessions, id \in StatsUserIds : DeleteUser(s, id)
    \/ \E s \in FrameSessions, id \in StatsUserIds : ResetVote(s, id)
    \/ \E s \in FrameSessions, l \in LevelInputs, g \in GradeInputs : SelectLevel(s, l, g)
    \/ \E s \in FrameSessions : GetStats(s)

SpecStats == InitStats /\ [][NextStats]_vars

\* ------------------------------------------------ the administration routes
\* Every admin route, asked by the admin, by a student and without login.
StatusInputs == {"active"}

\* batches of the users that can log in
AdminBulkBodies ==
    {b \in BulkBodies : \A i \in DOMAIN b : b[i].referenceNumber \in Refs}

NextAdmin ==
    \/ \E s \in FrameSessions, name \in Names, ref \in LoginRefs : Login(s, name, ref)
    \/ \E s \in FrameSessions : Logout(s)
    \/ \E s \in FrameSessions, m \in MaxVotesInputs : CreatePosition(s, m)
    \/ \E s \in FrameSessions, id \in PositionIds, m \in MaxVotesInputs :
          UpdatePosition(s, id, m)
    \/ \E s \in FrameSessions, id \in PositionIds : DeletePosition(s, id)
    \/ \E s \in FrameSessions, p \in CandidatePositionInputs : CreateCandidate(s, p)
    \/ \E s \in FrameSessions, id \in CandidateIds, p \in CandidatePositionInputs :
          UpdateCandidate(s, id, p)
    \/ \E s \in FrameSessions, id \in CandidateIds : DeleteCandidate(s, id)
    \/ \E s \in FrameSessions, body \in CreateUserBodies : CreateUser(s, body)
    \/ \E s \in FrameSessions, id \in UserIds, body \in UpdateUserBodies :
          UpdateUser(s, id, body)
    \/ \E s \in FrameSessions, id \in UserIds : DeleteUser(s, id)
    \/ \E s \in FrameSessions, id \in UserIds : ResetVote(s, id)
    \/ \E s \in FrameSessions, name \in PartylistNames : CreatePartylist(s, name)
    \/ \E s \in FrameSessions, id \in PartylistIds, name \in PartylistNames :
          UpdatePartylist(s, id, name)
    \/ \E s \in FrameSessions, id \in PartylistIds : DeletePartylist(s, id)
    \/ \E s \in FrameSessions, e \in StatusInputs, d \in StartDateInputs :
          UpdateSettings(s, e, d)
    \/ \E r \in Requests, s \in FrameSessions, body \in AdminBulkBodies :
          BulkStart(r, s, body)
    \/ \E r \in Requests : BulkCheck(r)
    \/ \E r \in Requests : BulkCreate(r)
    \/ \E s \in FrameSessions : GetUsers(s)
    \/ \E s \in FrameSessions : GetStats(s)

SpecAdmin == Init /\ [][NextAdmin]_vars

\* ------------------------------------------------------ GET /api/auth/me
AuthMe(s) ==
    IF sessions[s] = Null
    THEN AdminReject(401, "Not authenticated")
    ELSE /\ resp' = Response(200, sessions[s])
         /\ UNCHANGED <<store, sessions, reqs>>

\* SCHOOL_LEVELS[schoolLevel].grades
getGradesBySchoolLevel(schoolLevel) ==
    CASE schoolLevel = "elementary" -> {3, 4, 5, 6}
      [] schoolLevel = "juniorHigh" -> {7, 8, 9, 10}
      [] schoolLevel = "seniorHigh" -> {11, 12}
      [] OTHER -> {}

\* POST /api/votes with its whole body: the handler reads positionId and
\* candidateId of the body and takes the user of the session; the body stays
\* with the request until the response.
VoteSubmit(r, s, body) ==
    LET q == [pc |-> "createVote", sess |-> s, user |-> sessions[s],
              positionId |-> body.positionId, candidateId |-> body.candidateId,
              body |-> body]
        check == VoteCheck(q.user, body.positionId, body.candidateId)
    IN
    /\ reqs[r].pc = "idle"
    /\ \A r2 \in DOMAIN reqs : r2 < r => reqs[r2].pc # "idle"
    /\ IF check.status # 0
       THEN VoteReject(r, check.status, check.message)
       ELSE /\ reqs' = [reqs EXCEPT ![r] = q]
            /\ UNCHANGED <<store, sessions, resp>>

\* ------------------------------------------------------ the voter's routes
\* Login, level selection and voting of the admin and the students, on
\* positions and candidates that are restricted to school and grade levels.
NumVoters == 1
NumLevelPositions == 2
VoterUserIds == 1..(NumVoters + 1)
VoterPositionIds == 1..NumLevelPositions
UnknownRef == "R9"
VoterLoginRefs == {StudentRefs[i] : i \in 1..NumVoters} \cup {AdminRef, UnknownRef}
VoterLevelInputs == {"elementary", "juniorHigh"}
VoterGradeInputs == {3, 7}
\* the school level and the grade of position p and of its candidate
LevelOfPosition(p) == IF p = 1 THEN "elementary" ELSE "juniorHigh"
GradeOfPosition(p) == IF p = 1 THEN 3 ELSE 7
\* bodies name the admin as userId, whoever sends them
VoteBodies ==
    [userId : {AdminId}, positionId : VoterPositionIds,
     candidateId : VoterPositionIds]

InitVoter ==
    /\ users = [id \in VoterUserIds |->
                   IF id = AdminId THEN HardcodedAdmin
                   ELSE [id |-> id, name |-> "n1",
                         referenceNumber |-> StudentRefs[id - 1],
                         isAdmin |-> FALSE, hasVoted |-> FALSE,
                         schoolLevel |-> NoLevel, gradeLevel |-> 0]]
    /\ positions = [p \in VoterPositionIds |->
                       [id |-> p, maxVotes |-> 1,
                        schoolLevels |-> {LevelOfPosition(p)}]]
    /\ candidates = [c \in VoterPositionIds |->
                        [id |-> c, positionId |-> c,
                         schoolLevels |-> {LevelOfPosition(c)},
                         gradeLevels |-> {GradeOfPosition(c)}]]
    /\ votes = EmptyBag
    /\ nextUserId = NumVoters + 2
    /\ nextPositionId = NumLevelPositions + 1
    /\ nextCandidateId = NumLevelPositions + 1
    /\ partylists = <<>>
    /\ nextPartylistId = 1
    /\ settings = Null
    /\ sessions = [s \in Sessions |-> Null]
    /\ reqs = [r \in Requests |-> IdleReq]
    /\ resp = Response(0, NoBody)

NextVoter ==
    \/ \E s \in FrameSessions, name \in Names, ref \in VoterLoginRefs :
          Login(s, name, ref)
    \/ \E s \in FrameSessions : Logout(s)
    \/ \E s \in FrameSessions : AuthMe(s)
    \/ \E s \in FrameSessions, l \in VoterLevelInputs, g \in VoterGradeInputs :
          SelectLevel(s, l, g)
    \/ \E r \in Requests, s \in FrameSessions, body \in VoteBodies :
          VoteSubmit(r, s, body)
    \/ \E r \in Requests : VoteCreate(r)

SpecVoter == InitVoter /\ [][NextVoter]_vars

\* ==================================================================== claims

Mismatch(p, c) ==
    /\ getPosition(p) # Null
    /\ getCandidate(c) # Null
    /\ getCandidate(c).positionId # p

FreshValidSubmission(s, p, c) ==
    /\ sessions[s] # Null
    /\ getUser(sessions[s].id) # Null
    /\ ~getUser(sessions[s].id).hasVoted
    /\ getPosition(p) # Null
    /\ getCandidate(c) # Null
    /\ getCandidate(c).positionId = p

UnauthenticatedRejected ==
    [][\A r \in DOMAIN reqs, s \in Sessions, p \in PositionIds, c \in CandidateIds :
          (sessions[s] = Null /\ VoteValidate(r, s, p, c))
              => /\ resp' = Response(401, Msg("Not authenticated"))
                 /\ UNCHANGED <<votes, users, sessions, reqs>>]_vars

\* a voter logged out, and the submission that followed was answered 401
LoggedOutVoterRejected ==
    /\ resp = Response(401, Msg("Not authenticated"))
    /\ \A s \in Sessions : sessions[s] = Null
    /\ \E u \in DOMAIN users : users[u].hasVoted

\* C10: a submission of a session user that names a position or a candidate
\* not in the store is answered 404 and writes nothing.
MissingEntityNotFound ==
    [][\A r \in DOMAIN reqs, s \in Sessions, p \in PositionIds, c \in CandidateIds :
          (sessions[s] # Null /\ (getPosition(p) = Null \/ getCandidate(c) = Null)
             /\ VoteValidate(r, s, p, c))
              => /\ resp'.status = 404
                 /\ UNCHANGED <<votes, users, sessions, reqs>>]_vars

\* the position was created and deleted, and a submission for it got 404
DeletedPositionWitness ==
    /\ resp = Response(404, Msg("Position not found"))
    /\ nextPositionId > 1
    /\ DOMAIN positions = {}

SelfDeleteRejected ==
    [][\A s \in Sessions, id \in UserIds :
          (~NotAdmin(s) /\ id = sessions[s].id /\ DeleteUser(s, id))
              => /\ resp' = Response(400, Msg("Cannot delete your own account"))
                 /\ users' = users]_vars

\* the admin asked for the deletion of its own account, which is still there
SelfDeleteWitness ==
    /\ resp = Response(400, Msg("Cannot delete your own account"))
    /\ \E s \in Sessions : ~NotAdmin(s) /\ sessions[s].id \in DOMAIN users

\* an admin route is asked with the session s
AdminRequest(s) ==
    \/ \E m \in MaxVotesInputs : CreatePosition(s, m)
    \/ \E id \in PositionIds, m \in MaxVotesInputs : UpdatePosition(s, id, m)
    \/ \E id \in PositionIds : DeletePosition(s, id)
    \/ \E p \in CandidatePositionInputs : CreateCandidate(s, p)
    \/ \E id \in CandidateIds, p \in CandidatePositionInputs : UpdateCandidate(s, id, p)
    \/ \E id \in CandidateIds : DeleteCandidate(s, id)
    \/ \E body \in CreateUserBodies : CreateUser(s, body)
    \/ \E id \in UserIds, body \in UpdateUserBodies : UpdateUser(s, id, body)
    \/ \E id \in UserIds : DeleteUser(s, id)
    \/ \E id \in UserIds : ResetVote(s, id)
    \/ \E name \in PartylistNames : CreatePartylist(s, name)
    \/ \E id \in PartylistIds, name \in PartylistNames : UpdatePartylist(s, id, name)
    \/ \E id \in PartylistIds : DeletePartylist(s, id)
    \/ \E e \in StatusInputs, d \in StartDateInputs : UpdateSettings(s, e, d)
    \/ \E r \in DOMAIN reqs, body \in AdminBulkBodies : BulkStart(r, s, body)
    \/ GetUsers(s)
    \/ GetStats(s)

\* C13: an admin route asked with a session that has no user or a user who
\* is not an admin is answered 403 "Unauthorized" (no data in the body) and
\* changes neither the store nor the sessions.
NonAdminRejected ==
    [][\A s \in Sessions :
          ((sessions[s] = Null \/ ~sessions[s].isAdmin) /\ AdminRequest(s))
              => /\ resp' = Response(403, Msg("Unauthorized"))
                 /\ UNCHANGED <<store, sessions>>]_vars

\* a logged-in student was refused while the store holds a partylist, a
\* position and settings
StudentRefusedWitness ==
    /\ resp = Response(403, Msg("Unauthorized"))
    /\ \E s \in Sessions : sessions[s] # Null /\ ~sessions[s].isAdmin
    /\ DOMAIN partylists # {}
    /\ DOMAIN positions # {}
    /\ settings # Null

\* the number of copies of the row v in the bag b
Copies(b, v) == IF v \in DOMAIN b THEN b[v] ELSE 0

StatsMutatesNothing ==
    [][\A s \in Sessions : GetStats(s) => UNCHANGED <<store, sessions>>]_vars

\* the last response is a report
IsReport == resp.status = 200 /\ "summary" \in DOMAIN resp.body

\* a report was sent next to Votes and a partylist
ReportNextToVotesWitness ==
    /\ IsReport
    /\ votes # EmptyBag
    /\ DOMAIN partylists # {}

\* C17: totalStudents is the number of Users that are not admins and
\* votedStudents the number of those whose has-voted flag is set.
SummaryCountsStudents ==
    IsReport =>
        /\ resp.body.summary.totalStudents =
              Cardinality({u \in DOMAIN users : ~users[u].isAdmin})
        /\ resp.body.summary.votedStudents =
              Cardinality({u \in DOMAIN users :
                              ~users[u].isAdmin /\ users[u].hasVoted})
        /\ resp.body.summary.votedStudents <= resp.body.summary.totalStudents

\* the admin has voted and is not counted: one of two students has voted
AdminNotCountedWitness ==
    /\ IsReport
    /\ users[AdminId].hasVoted
    /\ resp.body.summary.totalStudents = 2
    /\ resp.body.summary.votedStudents = 1

\* the percentage 0
ZeroPercentage(percentage) == percentage.num = 0 /\ percentage.den > 0

\* C18: without students the participation rate and every position and
\* candidate percentage of the report is 0; a school level without students
\* has percentage 0.
ZeroStudentsZeroPercentages ==
    IsReport =>
        /\ {u \in DOMAIN users : ~users[u].isAdmin} = {} =>
              /\ ZeroPercentage(resp.body.summary.participationRate)
              /\ \A p \in DOMAIN resp.body.votesByPosition :
                    ZeroPercentage(resp.body.votesByPosition[p].percentage)
              /\ \A p \in DOMAIN resp.body.votesByCandidateAndPosition :
                    \A c \in DOMAIN resp.body.votesByCandidateAndPosition[p].candidates :
                        ZeroPercentage(resp.body.votesByCandidateAndPosition[p]
                                           .candidates[c].percentage)
        /\ \A level \in SchoolLevels :
              resp.body.votesBySchoolLevel[level].totalStudents = 0
                  => ZeroPercentage(resp.body.votesBySchoolLevel[level].percentage)

\* a report without students next to Votes
NoStudentsWitness ==
    /\ IsReport
    /\ {u \in DOMAIN users : ~users[u].isAdmin} = {}
    /\ votes # EmptyBag

\* percentage = count / total * 100
IsPercentageOf(percentage, count, total) ==
    /\ percentage.den > 0
    /\ percentage.num * total = count * 100 * percentage.den

LevelEntryCountsStudents ==
    IsReport =>
        \A level \in SchoolLevels :
            LET entry == resp.body.votesBySchoolLevel[level]
                ofLevel == {u \in DOMAIN users :
                               ~users[u].isAdmin /\ users[u].schoolLevel = level}
                voted == {u \in ofLevel : users[u].hasVoted}
            IN /\ entry.totalStudents = Cardinality(ofLevel)
               /\ entry.votedStudents = Cardinality(voted)
               /\ Cardinality(ofLevel) > 0 =>
                     IsPercentageOf(entry.percentage, Cardinality(voted),
                                    Cardinality(ofLevel))

\* two elementary students of whom one has voted, next to the admin, who has
\* no level and has voted
LevelWitness ==
    /\ IsReport
    /\ resp.body.votesBySchoolLevel["elementary"].totalStudents = 2
    /\ resp.body.votesBySchoolLevel["elementary"].votedStudents = 1
    /\ users[AdminId].schoolLevel = NoLevel
    /\ users[AdminId].hasVoted

\* the sum of entries[x].votes over x in S
RECURSIVE SumEntryVotes(_, _)
SumEntryVotes(entries, S) ==
    IF S = {} THEN 0
    ELSE LET x == CHOOSE y \in S : TRUE
         IN entries[x].votes + SumEntryVotes(entries, S \ {x})

StatedFailure(user, p, c) ==
    IF user = Null THEN 401
    ELSE IF getPosition(p) = Null THEN 404
    ELSE IF getCandidate(c) = Null THEN 404
    ELSE IF getCandidate(c).positionId # p THEN 400
    ELSE IF VoteCount(user.id, p) > 0 THEN 409
    ELSE 0

NoSessionUserGets401 ==
    [][\A s \in Sessions :
          (sessions[s] = Null /\ AdminRequest(s)) => resp'.status = 401]_vars

Eligible(u, candidateId, positionId) ==
    /\ users[u].schoolLevel \in candidates[candidateId].schoolLevels
    /\ users[u].gradeLevel \in candidates[candidateId].gradeLevels
    /\ users[u].schoolLevel \in positions[positionId].schoolLevels

VoteAttributedToSessionUser ==
    [][/\ \A r \in Requests, s \in FrameSessions, body \in VoteBodies :
            (VoteSubmit(r, s, body) /\ reqs'[r] # IdleReq)
                => reqs'[r].user = sessions[s]
       /\ \A r \in Requests :
            VoteCreate(r) =>
                votes' = votes (+) SetToBag({[userId |-> reqs[r].user.id,
                                              candidateId |-> reqs[r].candidateId,
                                              positionId |-> reqs[r].positionId]})
       /\ votes' # votes => \E r \in Requests : VoteCreate(r)]_vars

\* a student's Vote is committed, sent with a body naming the admin, and no
\* Vote is attributed to the admin
ForeignUserIdIgnoredWitness ==
    /\ resp.status = 201
    /\ "candidateId" \in DOMAIN resp.body
    /\ resp.body.userId # AdminId
    /\ \A v \in DOMAIN votes : v.userId # AdminId
    /\ BagCardinality(votes) > 0

====
